---------------------------- MODULE Spec2Model ----------------------------
(***************************************************************************)
(* js-secure-uploader: the updateable SHA-1 engine (Sha1), the client      *)
(* upload session (SecureUploaderFile / SecureUploaderRequest / worker)    *)
(* and the PHP receiver that verifies and reassembles the chunks.          *)
(*                                                                         *)
(* A 32-bit word is kept as a pair <<hi, lo>> of 16-bit halves, because    *)
(* every word operation of the source works modulo 2^32.                   *)
(***************************************************************************)
EXTENDS Integers, Sequences, FiniteSets, TLC

(***************************************************************************)
(* Bounds of the model.                                                    *)
(***************************************************************************)
MaxFileSize == 4
MaxChunkSize == 3
MaxMsgLen == 129
MaxFeeds == 3
MaxFinalizes == 2
MaxLateFeeds == 2
MaxRequests == 3

\* oEvent.total of the upload progress events; oEvent.loaded is 0..ProgressTotal
ProgressTotal == 2

\* A retry allowance of one more.
RetryAllowance_Four == 3 + 1

\* this.nRetriesLeft = 3
RetryAllowance == 3

Min(a, b) == IF a < b THEN a ELSE b
Max(a, b) == IF a > b THEN a ELSE b

(***************************************************************************)
(* The source file: byte i (from 0) of the file.                           *)
(***************************************************************************)
FileByte(i) == 97 + i
FileBytes(n) == [i \in 1..n |-> FileByte(i - 1)]

\* One bit of the first byte of the payload is flipped in transit.
Corrupt(bytes) ==
    IF bytes = <<>> THEN bytes
    ELSE [bytes EXCEPT ![1] = IF @ % 2 = 0 THEN @ + 1 ELSE @ - 1]

(***************************************************************************)
(* Bit operations on bytes, halves and words.                              *)
(***************************************************************************)
RECURSIVE BitXor(_, _, _)
BitXor(a, b, n) ==
    IF n = 0 THEN 0
    ELSE ((a + b) % 2) + 2 * BitXor(a \div 2, b \div 2, n - 1)

RECURSIVE BitAnd(_, _, _)
BitAnd(a, b, n) ==
    IF n = 0 THEN 0
    ELSE ((a % 2) * (b % 2)) + 2 * BitAnd(a \div 2, b \div 2, n - 1)

\* The tables of a ^ b and a & b on bytes, entry a * 256 + b + 1, built once.
XorTab == <<>> \o [i \in 1..65536 |-> BitXor((i - 1) \div 256, (i - 1) % 256, 8)]
AndTab == <<>> \o [i \in 1..65536 |-> BitAnd((i - 1) \div 256, (i - 1) % 256, 8)]

Xor16(a, b) ==
    XorTab[(a \div 256) * 256 + (b \div 256) + 1] * 256
    + XorTab[(a % 256) * 256 + (b % 256) + 1]
And16(a, b) ==
    AndTab[(a \div 256) * 256 + (b \div 256) + 1] * 256
    + AndTab[(a % 256) * 256 + (b % 256) + 1]

\* a ^ b
Xor(a, b) == <<Xor16(a[1], b[1]), Xor16(a[2], b[2])>>
\* a & b
And(a, b) == <<And16(a[1], b[1]), And16(a[2], b[2])>>
\* a | b
Or(a, b) == <<a[1] + b[1] - And16(a[1], b[1]), a[2] + b[2] - And16(a[2], b[2])>>
\* ~a
Not(a) == <<65535 - a[1], 65535 - a[2]>>

Pow2(n) == 2 ^ n

\* The word with value n, 0 <= n < 2^31.
Word(n) == <<n \div 65536, n % 65536>>

\* ( x + y + ... ) & 0xffffffff
Add2(a, b) ==
    LET lo == a[2] + b[2]
        hi == a[1] + b[1] + (lo \div 65536)
    IN  <<hi % 65536, lo % 65536>>

Add5(a, b, c, d, e) ==
    LET lo == a[2] + b[2] + c[2] + d[2] + e[2]
        hi == a[1] + b[1] + c[1] + d[1] + e[1] + (lo \div 65536)
    IN  <<hi % 65536, lo % 65536>>

\* Sha1.prototype.leftRotate: ( nInput << nOffset ) | ( nInput >>> ( 32 - nOffset ) )
leftRotate(nInput, nBits) ==
    LET x == IF nBits >= 16 THEN <<nInput[2], nInput[1]>> ELSE nInput
        k == nBits % 16
    IN  IF k = 0 THEN x
        ELSE <<((x[1] * Pow2(k)) % 65536) + (x[2] \div Pow2(16 - k)),
               ((x[2] * Pow2(k)) % 65536) + (x[1] \div Pow2(16 - k))>>

\* The logical functions with the parity in the place of the majority.
logicalFunctions_NoMajority(nFunctionIndex, nChunkB, nChunkC, nChunkD) ==
    CASE nFunctionIndex = 0 -> Or(And(nChunkB, nChunkC), And(Not(nChunkB), nChunkD))
      [] nFunctionIndex \in {1, 2, 3} -> Xor(Xor(nChunkB, nChunkC), nChunkD)

\* Sha1.logicalFunctions
logicalFunctions(nFunctionIndex, nChunkB, nChunkC, nChunkD) ==
    CASE nFunctionIndex = 0 -> Or(And(nChunkB, nChunkC), And(Not(nChunkB), nChunkD))
      [] nFunctionIndex = 1 -> Xor(Xor(nChunkB, nChunkC), nChunkD)
      [] nFunctionIndex = 2 -> Or(Or(And(nChunkB, nChunkC), And(nChunkB, nChunkD)),
                                  And(nChunkC, nChunkD))
      [] nFunctionIndex = 3 -> Xor(Xor(nChunkB, nChunkC), nChunkD)

\* Sha1.constants: 0x5A827999, 0x6ED9EBA1, 0x8F1BBCDC, 0xCA62C1D6
constants ==
    << <<23170, 31129>>, <<28377, 60321>>, <<36635, 48348>>, <<51810, 49622>> >>

\* this.aResults of a new Sha1: 0x67452301, 0xEFCDAB89, 0x98BADCFE, 0x10325476, 0xC3D2E1F0
InitResults ==
    << <<26437, 8961>>, <<61389, 43913>>, <<39098, 56574>>, <<4146, 21622>>,
       <<50130, 57840>> >>

BlockBytes == 64

\* Sha1.prototype.createEmptyBlock
createEmptyBlock == [j \in 1..16 |-> <<0, 0>>]

(***************************************************************************)
(* Sha1.prototype.chunk: the input (a sequence of byte values) split into  *)
(* blocks of 16 big-endian words; offsets past the end read as 0.          *)
(***************************************************************************)
ByteAt(sInput, k) == IF k <= Len(sInput) THEN sInput[k] ELSE 0

chunk(sInput) ==
    LET nBlocks == (Len(sInput) + 63) \div 64
    IN  [i \in 1..nBlocks |->
            [j \in 1..16 |->
                LET p == (i - 1) * 64 + (j - 1) * 4
                IN  <<ByteAt(sInput, p + 1) * 256 + ByteAt(sInput, p + 2),
                      ByteAt(sInput, p + 3) * 256 + ByteAt(sInput, p + 4)>>]]

\* The four bytes of a word, most significant first.
WordBytes(w) == <<w[1] \div 256, w[1] % 256, w[2] \div 256, w[2] % 256>>

\* Sha1.prototype.extractBlock
extractBlock(aBlock, nLengthPayload) ==
    LET nLastUsedWord == nLengthPayload \div 4
        nLastUsedByteInWord == nLengthPayload - nLastUsedWord * 4 - 1
    IN  IF nLengthPayload = 0 THEN <<>>
        ELSE [k \in 1..(nLastUsedWord * 4 + nLastUsedByteInWord + 1) |->
                 WordBytes(aBlock[((k - 1) \div 4) + 1])[((k - 1) % 4) + 1]]

(***************************************************************************)
(* Sha1.prototype.feedHashWithBlocks: the compression of the blocks into   *)
(* the five accumulators.                                                  *)
(***************************************************************************)
\* The loops of the source run as two halves of their index range: the first
\* half is computed (the test on its length), then the second half on its
\* result.

\* aWords[i][j] for j = from..to (the source's indices, from 16): the words
\* w so far, extended by the formula.
RECURSIVE Extend(_, _, _)
Extend(w, from, to) ==
    IF from = to
    THEN Append(w, leftRotate(Xor(Xor(Xor(w[from - 2], w[from - 7]), w[from - 13]),
                                  w[from - 15]), 1))
    ELSE LET mid == (from + to) \div 2
             first == Extend(w, from, mid)
         IN  IF Len(first) = mid + 1 THEN Extend(first, mid + 1, to) ELSE <<>>

\* One round j (from 0) on the registers r = <<A, B, C, D, E>>.
Round(w, r, j) ==
    LET nFunctionIndex == j \div 20
        nTemp == Add5(leftRotate(r[1], 5),
                      logicalFunctions(nFunctionIndex, r[2], r[3], r[4]),
                      r[5], constants[nFunctionIndex + 1], w[j + 1])
    IN  <<nTemp, r[1], leftRotate(r[2], 30), r[3], r[4]>>

RECURSIVE Rounds(_, _, _, _)
Rounds(w, r, from, to) ==
    IF from = to THEN Round(w, r, from)
    ELSE LET mid == (from + to) \div 2
             first == Rounds(w, r, from, mid)
         IN  IF Len(first) = 5 THEN Rounds(w, first, mid + 1, to) ELSE <<>>

CompressBlock(aResults, aBlock) ==
    LET w == Extend(aBlock, 16, 79)
        r == Rounds(w, aResults, 0, 79)
    IN  <<Add2(aResults[1], r[1]), Add2(aResults[2], r[2]), Add2(aResults[3], r[3]),
          Add2(aResults[4], r[4]), Add2(aResults[5], r[5])>>

RECURSIVE feedHashWithBlocks(_, _)
feedHashWithBlocks(aResults, aWords) ==
    IF Len(aWords) = 0 THEN aResults
    ELSE IF Len(aWords) = 1 THEN CompressBlock(aResults, aWords[1])
    ELSE LET mid == Len(aWords) \div 2
             first == feedHashWithBlocks(aResults, SubSeq(aWords, 1, mid))
         IN  IF Len(first) = 5
             THEN feedHashWithBlocks(first, SubSeq(aWords, mid + 1, Len(aWords)))
             ELSE <<>>

(***************************************************************************)
(* The Sha1 object: aResults, aLastBlock (Null when absent), the total     *)
(* length fed, and whether finalize has replaced feed by the throwing      *)
(* function.                                                               *)
(***************************************************************************)
Null == <<>>

\* var Sha1 = function() { ... }
NewSha1 ==
    [aResults |-> InitResults,
     aLastBlock |-> Null,
     nAccumulatedMessageLength |-> 0,
     finalized |-> FALSE,
     \* history: the blocks given to feedHashWithBlocks so far
     aCompressed |-> <<>>]

\* The payload length without the "|| 64" of a full last block.
PayloadLength_Modulo(nAccumulatedMessageLength) == nAccumulatedMessageLength % 64

\* ( this.nAccumulatedMessageLength % 64 ) || 64
PayloadLength(nAccumulatedMessageLength) ==
    IF nAccumulatedMessageLength % 64 = 0 THEN 64 ELSE nAccumulatedMessageLength % 64

\* feed that counts what it hashes anew, the bytes taken back from the last
\* block included.
feed_CountsFeed(o, sInput) ==
    IF sInput = <<>> THEN o
    ELSE LET sFeed == IF o.aLastBlock # Null
                      THEN extractBlock(o.aLastBlock,
                                        PayloadLength(o.nAccumulatedMessageLength)) \o sInput
                      ELSE sInput
             aWords == chunk(sFeed)
             n == Len(aWords)
         IN  [o EXCEPT !.aLastBlock = aWords[n],
                       !.nAccumulatedMessageLength = @ + Len(sFeed),
                       !.aResults = feedHashWithBlocks(@, SubSeq(aWords, 1, n - 1)),
                       !.aCompressed = @ \o SubSeq(aWords, 1, n - 1)]

\* Sha1.prototype.feed on an object that was not finalized.
feed(o, sInput) ==
    IF sInput = <<>> THEN o
    ELSE LET sFeed == IF o.aLastBlock # Null
                      THEN extractBlock(o.aLastBlock,
                                        PayloadLength(o.nAccumulatedMessageLength)) \o sInput
                      ELSE sInput
             aWords == chunk(sFeed)
             n == Len(aWords)
         IN  [o EXCEPT !.aLastBlock = aWords[n],
                       !.nAccumulatedMessageLength = @ + Len(sInput),
                       !.aResults = feedHashWithBlocks(@, SubSeq(aWords, 1, n - 1)),
                       !.aCompressed = @ \o SubSeq(aWords, 1, n - 1)]

\* padLastBlock that writes the length of the pending bytes, not of the whole
\* message.
padLastBlock_PendingLength(aLastBlock, nAccumulatedMessageLength) ==
    LET nPaddingByteByte == nAccumulatedMessageLength % 4
        nPaddingByteWord == (nAccumulatedMessageLength \div 4) % 16
        full == (nPaddingByteWord = 0 /\ nPaddingByteByte = 0)
        b1 == IF full THEN createEmptyBlock ELSE aLastBlock
        \* 0x80 << ( 24 - nPaddingByteByte * 8 )
        bit == CASE nPaddingByteByte = 0 -> <<32768, 0>>
                 [] nPaddingByteByte = 1 -> <<128, 0>>
                 [] nPaddingByteByte = 2 -> <<0, 32768>>
                 [] nPaddingByteByte = 3 -> <<0, 128>>
        b2 == [b1 EXCEPT ![nPaddingByteWord + 1] = Or(@, bit)]
        b3 == IF nPaddingByteWord > 13 THEN createEmptyBlock ELSE b2
        \* Math.floor( length / 2^29 ) and ( length * 8 ) & 0xffffffff
        b4 == [b3 EXCEPT ![15] = <<0, 0>>,
                         ![16] = <<0, (nAccumulatedMessageLength % 64) * 8>>]
    IN  (IF full THEN <<aLastBlock>> ELSE <<>>)
        \o (IF nPaddingByteWord > 13 THEN <<b2>> ELSE <<>>)
        \o <<b4>>

\* Sha1.prototype.padLastBlock
padLastBlock(aLastBlock, nAccumulatedMessageLength) ==
    LET nPaddingByteByte == nAccumulatedMessageLength % 4
        nPaddingByteWord == (nAccumulatedMessageLength \div 4) % 16
        full == (nPaddingByteWord = 0 /\ nPaddingByteByte = 0)
        b1 == IF full THEN createEmptyBlock ELSE aLastBlock
        \* 0x80 << ( 24 - nPaddingByteByte * 8 )
        bit == CASE nPaddingByteByte = 0 -> <<32768, 0>>
                 [] nPaddingByteByte = 1 -> <<128, 0>>
                 [] nPaddingByteByte = 2 -> <<0, 32768>>
                 [] nPaddingByteByte = 3 -> <<0, 128>>
        b2 == [b1 EXCEPT ![nPaddingByteWord + 1] = Or(@, bit)]
        b3 == IF nPaddingByteWord > 13 THEN createEmptyBlock ELSE b2
        \* Math.floor( length / 2^29 ) and ( length * 8 ) & 0xffffffff
        b4 == [b3 EXCEPT ![15] = Word(nAccumulatedMessageLength \div Pow2(29)),
                         ![16] = <<(nAccumulatedMessageLength \div 8192) % 65536,
                                   (nAccumulatedMessageLength % 8192) * 8>>]
    IN  (IF full THEN <<aLastBlock>> ELSE <<>>)
        \o (IF nPaddingByteWord > 13 THEN <<b2>> ELSE <<>>)
        \o <<b4>>

\* finalize that leaves the last block in place.
finalize_KeepsLastBlock(o) ==
    [o EXCEPT !.aResults = IF o.aLastBlock # Null
                           THEN feedHashWithBlocks(@, padLastBlock(o.aLastBlock,
                                                       o.nAccumulatedMessageLength))
                           ELSE @,
              !.aCompressed = IF o.aLastBlock # Null
                              THEN @ \o padLastBlock(o.aLastBlock,
                                                     o.nAccumulatedMessageLength)
                              ELSE @,
              !.finalized = TRUE]

\* The state of the object after Sha1.prototype.finalize.
finalize(o) ==
    [o EXCEPT !.aResults = IF o.aLastBlock # Null
                           THEN feedHashWithBlocks(@, padLastBlock(o.aLastBlock,
                                                       o.nAccumulatedMessageLength))
                           ELSE @,
              !.aCompressed = IF o.aLastBlock # Null
                              THEN @ \o padLastBlock(o.aLastBlock,
                                                     o.nAccumulatedMessageLength)
                              ELSE @,
              !.aLastBlock = Null,
              !.finalized = TRUE]

HexDigit == <<"0", "1", "2", "3", "4", "5", "6", "7", "8", "9", "a", "b", "c", "d", "e", "f">>

\* Sha1.prototype.binaryToHexString
binaryToHexString(nInput) ==
    [k \in 1..8 |->
        LET half == IF k <= 4 THEN nInput[1] ELSE nInput[2]
            i == (8 - k) % 4
        IN  HexDigit[((half \div Pow2(4 * i)) % 16) + 1]]

\* The five words h0..h4 in hexadecimal, concatenated.
HexOfResults(h) ==
    binaryToHexString(h[1]) \o binaryToHexString(h[2]) \o binaryToHexString(h[3])
    \o binaryToHexString(h[4]) \o binaryToHexString(h[5])

\* Sha1.prototype.formatHashHex
formatHashHex(o) == HexOfResults(o.aResults)

\* The Error thrown by the function that finalize puts in the place of feed.
FinalizedError == "You cannot feed an already finalized hash again."

\* A feed that returns on empty input before anything else.
Sha1_feed_EmptyReturns(o, sInput) ==
    IF o.finalized /\ sInput # <<>>
    THEN [oSha1 |-> o, thrown |-> FinalizedError]
    ELSE [oSha1 |-> feed(o, sInput), thrown |-> ""]

\* oSha1.feed( sInput ): Sha1.prototype.feed, or after finalize the function
\* that finalize put in its place; thrown is "" when the call returns.
Sha1_feed(o, sInput) ==
    IF o.finalized
    THEN [oSha1 |-> o, thrown |-> FinalizedError]
    ELSE [oSha1 |-> feed(o, sInput), thrown |-> ""]

\* The four bytes of each word, the least significant first.
formatHashBinary_LittleEndian(o) ==
    [k \in 1..20 |-> WordBytes(o.aResults[((k - 1) \div 4) + 1])[4 - ((k - 1) % 4)]]

\* Sha1.prototype.formatHashBinary
formatHashBinary(o) ==
    [k \in 1..20 |-> WordBytes(o.aResults[((k - 1) \div 4) + 1])[((k - 1) % 4) + 1]]


(***************************************************************************)
(* PHP's hash_init( 'sha1' ) / hash_update_stream / hash_final used by the *)
(* receiver: SHA-1 of RFC 3174 over the padded message, in lowercase hex.  *)
(***************************************************************************)
Zeros(n) == [i \in 1..n |-> 0]

Rfc3174Pad(m) ==
    LET L == Len(m)
        z == (55 - (L % 64)) % 64
    IN  m \o <<128>> \o Zeros(z) \o Zeros(4)
        \o <<(L \div 2097152) % 256, (L \div 8192) % 256, (L \div 32) % 256, (L % 32) * 8>>

Rfc3174Sha1(m) == HexOfResults(feedHashWithBlocks(InitResults, chunk(Rfc3174Pad(m))))

\* The byte ranges of the source file, intact and corrupted in transit: the
\* contents whose digests are computed once and looked up afterwards.
KnownInputs ==
    LET ranges == {SubSeq(FileBytes(MaxFileSize), a, b) : a, b \in 1..MaxFileSize}
    IN  ranges \cup {Corrupt(m) : m \in ranges}

RECURSIVE Rfc3174Table(_)
Rfc3174Table(S) ==
    IF S = {} THEN <<>>
    ELSE LET m == CHOOSE x \in S : TRUE
         IN  (m :> Rfc3174Sha1(m)) @@ Rfc3174Table(S \ {m})

Rfc3174Known == Rfc3174Table(KnownInputs)

\* The digest of m: looked up in table if it is there, computed otherwise.
Memo(table, m, computed) == IF m \in DOMAIN table THEN table[m] ELSE computed

hash_sha1(m) == Memo(Rfc3174Known, m, Rfc3174Sha1(m))

\* new Sha1().feed( m, false ).finalize(), computed once for the known contents.
RECURSIVE Sha1Table(_)
Sha1Table(S) ==
    IF S = {} THEN <<>>
    ELSE LET m == CHOOSE x \in S : TRUE
         IN  (m :> formatHashHex(finalize(feed(NewSha1, m)))) @@ Sha1Table(S \ {m})

Sha1Known == Sha1Table(KnownInputs)

Sha1Hex(m) == Memo(Sha1Known, m, formatHashHex(finalize(feed(NewSha1, m))))

\* No change of case.
strtolower_AsIs(s) == s

\* PHP strtolower on a sequence of one-character strings.
strtolower(s) ==
    [i \in 1..Len(s) |->
        CASE s[i] = "A" -> "a" [] s[i] = "B" -> "b" [] s[i] = "C" -> "c"
          [] s[i] = "D" -> "d" [] s[i] = "E" -> "e" [] s[i] = "F" -> "f"
          [] OTHER -> s[i]]


VARIABLES
    \* the file picked and the settings
    nFileSize,          \* oFile.size
    nChunksize,         \* oSettings.chunk_size
    bWebkitSlice,       \* the File object has webkitSlice and no slice
    \* SecureUploaderFile
    started,            \* start() was called
    nOffset,
    nRetriesLeft,
    oRequest,           \* <<>> (null) or <<the SecureUploaderRequest>>
    finished,           \* getProgressPercentage was replaced by "return 1"
    aPosted,            \* every message posted to the worker, in order
    \* the worker thread
    workerInbox,        \* messages posted to the worker, not yet handled
    oSha1Whole,
    mainInbox,          \* results posted by the worker, not yet handled
    \* the transport and the receiver
    net,                \* the HTTP exchanges that have not concluded
    dir,                \* chunks/<guid>: file name -> contents
    sent,               \* every submission put on the wire, in order
    aOutcomes,          \* the bSuccess of every concluded transfer, in order
    aArrived,           \* what the receiver got out of turn, in order: the
                        \* submissions, or the offsets posted
    aHandlers,          \* the runs of the upload handler that go on at the same time
    \* the hasher fed piecewise
    sMessage,             \* the whole byte sequence
    nFed,               \* how many of its bytes were fed
    aPieces,            \* the lengths of the pieces fed, in order
    oSha1,
    sDigest,            \* what the calls of finalize() returned, in order
    sRaw,               \* what the calls of finalize( true ) returned, in order
    aLate               \* the calls of feed after finalize: length fed, Error thrown

clientVars == <<started, nOffset, nRetriesLeft, oRequest, finished, aPosted>>
workerVars == <<workerInbox, oSha1Whole, mainInbox>>
serverVars == <<net, dir, sent, aOutcomes, aArrived, aHandlers>>
fileVars == <<nFileSize, nChunksize, bWebkitSlice>>
uploadVars == <<fileVars, clientVars, workerVars, serverVars>>
hashVars == <<sMessage, nFed, aPieces, oSha1, sDigest, sRaw, aLate>>
vars == <<uploadVars, hashVars>>

\* basename( $_FILES['chunk']['name'] ): the file is called "f".
FileName == <<102>>

\* Blob.slice( start, end ) of the File API (webkitSlice has the same arguments).
BlobSlice(bytes, start, end) ==
    LET s == Min(Max(start, 0), Len(bytes))
        e == Min(Max(end, 0), Len(bytes))
    IN  IF e > s THEN SubSeq(bytes, s + 1, e) ELSE <<>>

\* sliceFile of the worker
sliceFile(bytes, nOff, nLength) ==
    IF bWebkitSlice
    THEN BlobSlice(bytes, nOff, nOff + nLength)
    ELSE BlobSlice(bytes, nOff, nLength)


(***************************************************************************)
(* The receiver (the PHP upload handler).                                  *)
(***************************************************************************)
\* The decimal digits of n, as character codes.
RECURSIVE Decimal(_)
Decimal(n) == IF n < 10 THEN <<48 + n>> ELSE Decimal(n \div 10) \o <<48 + (n % 10)>>

\* The offset as it is, without padding.
ZeroPad15_NoPad(str) == str

\* sprintf( '%015s', $_POST['offset'] )
ZeroPad15(str) == IF Len(str) >= 15 THEN str ELSE [i \in 1..(15 - Len(str)) |-> 48] \o str

\* $target_name for $_POST['offset'] = sOffset
TargetNameOf(sOffset) == FileName \o <<46>> \o ZeroPad15(sOffset)

\* $target_name for the offset that the client sends as a decimal number
TargetName(offset) == TargetNameOf(Decimal(offset))

\* Comparison of two different strings as sort() compares them, byte by byte.
RECURSIVE StrLess(_, _)
StrLess(a, b) ==
    IF a = <<>> THEN b # <<>>
    ELSE IF b = <<>> THEN FALSE
    ELSE IF Head(a) # Head(b) THEN Head(a) < Head(b)
    ELSE StrLess(Tail(a), Tail(b))

\* rsort in the place of sort: the names in descending order.
RECURSIVE sort_Descending(_)
sort_Descending(names) ==
    IF names = {} THEN <<>>
    ELSE LET last == CHOOSE x \in names : \A y \in names : x = y \/ StrLess(y, x)
         IN  <<last>> \o sort_Descending(names \ {last})

\* sort( $chunk_list )
RECURSIVE sort(_)
sort(names) ==
    IF names = {} THEN <<>>
    ELSE LET first == CHOOSE x \in names : \A y \in names : x = y \/ StrLess(x, y)
         IN  <<first>> \o sort(names \ {first})

\* The directory d with file name holding contents.
PutFile(d, name, contents) ==
    [n \in (DOMAIN d) \cup {name} |-> IF n = name THEN contents ELSE d[n]]

\* The directory d without the files in names.
RemoveFiles(d, names) == [n \in (DOMAIN d) \ names |-> d[n]]

RECURSIVE Concat(_, _)
Concat(d, list) == IF list = <<>> THEN <<>> ELSE d[Head(list)] \o Concat(d, Tail(list))

\* sha1_hash_file
sha1_hash_file(d, name) == hash_sha1(d[name])

\* combine_chunks( $to_name, $directory_path ): the directory afterwards.
combine_chunks(to_name, d) ==
    LET chunk_set == (DOMAIN d) \ {to_name}
        chunk_list == sort(chunk_set)
    IN  IF Cardinality(chunk_set) = 1
        THEN \* rename( $chunk_path, $file_path )
             PutFile(RemoveFiles(d, chunk_set), to_name, d[chunk_list[1]])
        ELSE \* fopen( $file_path, 'ab' ) and stream_copy_to_stream of every chunk
             PutFile(d, to_name,
                     (IF to_name \in DOMAIN d THEN d[to_name] ELSE <<>>)
                     \o Concat(d, chunk_list))

\* clear_directory without the test for the exception.
clear_directory_NoException(exception, d) == RemoveFiles(d, DOMAIN d)

\* clear_directory( $exception, $directory_path )
clear_directory(exception, d) == RemoveFiles(d, (DOMAIN d) \ {exception})

\* The main script with the chunks removed before the whole-file hash is
\* compared.
UploadHandler_ClearsFirst(d, data) ==
    LET target_name == TargetName(data.offset)
        d1 == PutFile(d, target_name, data.chunk)
    IN  IF strtolower(sha1_hash_file(d1, target_name)) # strtolower(data.hash)
        THEN [dir |-> d1, status |-> 500, error |-> "Hash mismatch for chunk."]
        ELSE IF data.entire_hash = <<>>
        THEN [dir |-> d1, status |-> 200, error |-> ""]
        ELSE LET d2 == clear_directory(FileName, combine_chunks(FileName, d1))
             IN  IF strtolower(sha1_hash_file(d2, FileName))
                        # strtolower(data.entire_hash[1])
                 THEN [dir |-> d2, status |-> 500, error |-> "Hash mismatch for file."]
                 ELSE [dir |-> d2, status |-> 200, error |-> ""]

\* The main script without the comparison of the whole-file hash.
UploadHandler_NoWholeCheck(d, data) ==
    LET target_name == TargetName(data.offset)
        d1 == PutFile(d, target_name, data.chunk)
    IN  IF strtolower(sha1_hash_file(d1, target_name)) # strtolower(data.hash)
        THEN [dir |-> d1, status |-> 500, error |-> "Hash mismatch for chunk."]
        ELSE IF data.entire_hash = <<>>
        THEN [dir |-> d1, status |-> 200, error |-> ""]
        ELSE [dir |-> clear_directory(FileName, combine_chunks(FileName, d1)),
              status |-> 200, error |-> ""]

\* The main script for one request: the directory afterwards, the HTTP
\* status and the message of the error that ended the script ("" if none).
UploadHandler(d, data) ==
    LET target_name == TargetName(data.offset)
        \* move_uploaded_file
        d1 == PutFile(d, target_name, data.chunk)
    IN  IF strtolower(sha1_hash_file(d1, target_name)) # strtolower(data.hash)
        THEN [dir |-> d1, status |-> 500, error |-> "Hash mismatch for chunk."]
        ELSE IF data.entire_hash = <<>>
        THEN [dir |-> d1, status |-> 200, error |-> ""]
        ELSE LET d2 == combine_chunks(FileName, d1)
             IN  IF strtolower(sha1_hash_file(d2, FileName))
                        # strtolower(data.entire_hash[1])
                 THEN [dir |-> d2, status |-> 500, error |-> "Hash mismatch for file."]
                 ELSE [dir |-> clear_directory(FileName, d2), status |-> 200,
                       error |-> ""]

(***************************************************************************)
(* The worker thread.                                                      *)
(***************************************************************************)
\* The "size" of oResponse: Math.min( nChunkSize, ( nFileSize - nOffset ) )
ResponseSize_NoMin(nChunkSize, nSize, nOff) == nChunkSize

ResponseSize(nChunkSize, nSize, nOff) == Min(nChunkSize, nSize - nOff)

\* The message listener of the worker: the response posted for message m,
\* with the whole-file hasher afterwards.
\* oResponse for message m, the chunk read being sBinary and the whole-file
\* hasher fed with it being whole1.
Response(m, sBinary, whole1) ==
    [offset |-> m.offset,
     size |-> ResponseSize(m.chunkSize, nFileSize, m.offset),
     binary |-> sBinary,
     hash |-> Sha1Hex(sBinary),
     entire_size |-> IF m.last THEN <<nFileSize>> ELSE <<>>,
     entire_hash |-> IF m.last THEN <<formatHashHex(finalize(whole1))>> ELSE <<>>]

\* The whole-file hasher after the response for m: finalized by the last chunk.
WholeAfter(m, whole1) == IF m.last THEN finalize(whole1) ELSE whole1

WorkerRead(m, whole, sBinary) ==
    [oSha1Whole |-> WholeAfter(m, feed(whole, sBinary)),
     oResponse |-> Response(m, sBinary, feed(whole, sBinary))]

WorkerResponse(m, whole) ==
    WorkerRead(m, whole, sliceFile(FileBytes(nFileSize), m.offset, m.chunkSize))

\* postMessage( oResponse ), with the whole-file hasher as the listener left it.
PostMessage(r) ==
    /\ oSha1Whole' = r.oSha1Whole
    /\ mainInbox' = Append(mainInbox, r.oResponse)

WorkerOnMessage ==
    /\ workerInbox # <<>>
    /\ workerInbox' = Tail(workerInbox)
    /\ IF oSha1Whole.finalized
       THEN \* feed throws: nothing is posted
            UNCHANGED <<oSha1Whole, mainInbox>>
       ELSE PostMessage(WorkerResponse(Head(workerInbox), oSha1Whole))
    /\ UNCHANGED <<fileVars, clientVars, serverVars, hashVars>>

(***************************************************************************)
(* The client: SecureUploaderFile and SecureUploaderRequest.               *)
(***************************************************************************)
\* processNextChunk with "last" decided by > instead of >=.
processNextChunk_LastStrict(off) ==
    IF off >= nFileSize
    THEN [posted |-> FALSE, messages |-> <<>>, nOffset |-> off]
    ELSE [posted |-> TRUE,
          messages |-> <<[offset |-> off, chunkSize |-> nChunksize,
                          last |-> (off + nChunksize > nFileSize)]>>,
          nOffset |-> off + nChunksize]

\* processNextChunk posting every chunk that is left, not one.
processNextChunk_Eager(off) ==
    IF off >= nFileSize
    THEN [posted |-> FALSE, messages |-> <<>>, nOffset |-> off]
    ELSE LET n == ((nFileSize - off) + (nChunksize - 1)) \div nChunksize
         IN  [posted |-> TRUE,
              messages |-> [i \in 1..n |->
                             [offset |-> off + ((i - 1) * nChunksize),
                              chunkSize |-> nChunksize,
                              last |-> (off + (i * nChunksize) >= nFileSize)]],
              nOffset |-> off + (n * nChunksize)]

\* SecureUploaderFile.prototype.processNextChunk: the messages posted and
\* the offset afterwards; posted is FALSE when it returns false.
processNextChunk(off) ==
    IF off >= nFileSize
    THEN [posted |-> FALSE, messages |-> <<>>, nOffset |-> off]
    ELSE [posted |-> TRUE,
          messages |-> <<[offset |-> off, chunkSize |-> nChunksize,
                          last |-> (off + nChunksize >= nFileSize)]>>,
          nOffset |-> off + nChunksize]

\* new SecureUploaderRequest( ..., oResult, fpFinish )
SecureUploaderRequest(oResult) ==
    [oResult |-> oResult,
     sBinary |-> oResult.binary,
     nOffset |-> oResult.offset,
     nSize |-> oResult.size,
     sHash |-> oResult.hash,
     \* oResult.entire_size || null,  oResult.entire_hash || null
     nEntireSize |-> IF oResult.entire_size # <<>> /\ oResult.entire_size[1] # 0
                     THEN oResult.entire_size ELSE <<>>,
     sEntireHash |-> IF oResult.entire_hash # <<>> /\ oResult.entire_hash[1] # <<>>
                     THEN oResult.entire_hash ELSE <<>>,
     nUploadProgress |-> 0]

\* getData without the condition on the fields of the whole file.
getData_EntireAlways(req) ==
    [offset |-> req.nOffset,
     size |-> req.nSize,
     hash |-> req.sHash,
     entire_size |-> IF req.nEntireSize # <<>> THEN req.nEntireSize ELSE << <<>> >>,
     entire_hash |-> IF req.sEntireHash # <<>> THEN req.sEntireHash ELSE << <<>> >>,
     chunk |-> req.sBinary]

\* SecureUploaderRequest.prototype.getData: the fields of the submission.
\* this.nEntireHash is never set, so null !== this.nEntireHash always holds.
getData(req) ==
    LET bEntire == req.nEntireSize # <<>>
    IN  [offset |-> req.nOffset,
         size |-> req.nSize,
         hash |-> req.sHash,
         entire_size |-> IF bEntire THEN req.nEntireSize ELSE <<>>,
         entire_hash |-> IF bEntire
                         THEN (IF req.sEntireHash # <<>> THEN req.sEntireHash ELSE << <<>> >>)
                         ELSE <<>>,
         chunk |-> req.sBinary]

\* A fraction in lowest terms; <<0, 0>> is NaN (0 / 0).
RECURSIVE Gcd(_, _)
Gcd(a, b) == IF b = 0 THEN a ELSE Gcd(b, a % b)

Fraction(num, den) ==
    IF den = 0 THEN <<0, 0>> ELSE <<num \div Gcd(num, den), den \div Gcd(num, den)>>

\* SecureUploaderRequest.prototype.getProgressPercentage, out of ProgressTotal.
SecureUploaderRequest_getProgressPercentage(req) == req.nUploadProgress

\* getProgressPercentage that is not replaced when the upload has finished.
SecureUploaderFile_getProgressPercentage_NotReplaced ==
    LET nUploaded == Max(nOffset - nChunksize, 0)
        nSupposed == Min(nChunksize, nFileSize - nUploaded)
    IN  IF oRequest = <<>> THEN Fraction(nUploaded, nFileSize)
        ELSE Fraction((nUploaded * nSupposed * ProgressTotal)
                        + (SecureUploaderRequest_getProgressPercentage(oRequest[1])
                           * nFileSize),
                      nFileSize * nSupposed * ProgressTotal)

\* SecureUploaderFile.prototype.getProgressPercentage
SecureUploaderFile_getProgressPercentage ==
    LET nUploaded == Max(nOffset - nChunksize, 0)
        nSupposed == Min(nChunksize, nFileSize - nUploaded)
    IN  IF finished THEN <<1, 1>>
        ELSE IF oRequest = <<>> THEN Fraction(nUploaded, nFileSize)
        ELSE Fraction((nUploaded * nSupposed * ProgressTotal)
                        + (SecureUploaderRequest_getProgressPercentage(oRequest[1])
                           * nFileSize),
                      nFileSize * nSupposed * ProgressTotal)

\* SecureUploader.prototype.getProgressPercentage
SecureUploader_getProgressPercentage ==
    IF ~started THEN <<0, 1>> ELSE SecureUploaderFile_getProgressPercentage

\* An exchange put on the wire by SecureUploaderRequest.prototype.start.
Exchange(req) == [data |-> getData(req), stage |-> "request", status |-> 0, error |-> ""]

\* SecureUploader.prototype.start / SecureUploaderFile.prototype.start
Start ==
    /\ ~started
    /\ started' = TRUE
    /\ LET p == processNextChunk(nOffset)
       IN  /\ workerInbox' = workerInbox \o p.messages
           /\ aPosted' = aPosted \o p.messages
           /\ nOffset' = p.nOffset
    /\ UNCHANGED <<fileVars, nRetriesLeft, oRequest, finished, oSha1Whole, mainInbox,
                   serverVars, hashVars>>

\* this.oWorker.onmessage: SecureUploaderFile.prototype.uploadChunk
UploadChunk ==
    /\ mainInbox # <<>>
    /\ LET req == SecureUploaderRequest(Head(mainInbox))
       IN  /\ oRequest' = <<req>>
           /\ net' = Append(net, Exchange(req))
           /\ sent' = Append(sent, getData(req))
    /\ mainInbox' = Tail(mainInbox)
    /\ UNCHANGED <<fileVars, started, nOffset, nRetriesLeft, finished, aPosted,
                   workerInbox, oSha1Whole, dir, aOutcomes, aArrived, aHandlers,
                   hashVars>>

\* this.oXhr.upload.onprogress, with oEvent.loaded = loaded (0 also when the
\* length is not computable).
OnProgress(loaded) ==
    /\ oRequest # <<>>
    /\ net # <<>>
    /\ Head(net).stage = "request"
    /\ oRequest[1].nUploadProgress # loaded
    /\ oRequest' = <<[oRequest[1] EXCEPT !.nUploadProgress = loaded]>>
    /\ UNCHANGED <<fileVars, started, nOffset, nRetriesLeft, finished, aPosted,
                   workerVars, serverVars, hashVars>>

\* The callback that on a failure has the worker read and hash the chunk again.
Finish_RetryRehashes ==
    /\ net # <<>>
    /\ Head(net).stage = "response"
    /\ LET bSuccess == (Head(net).status = 200)
           oResult == oRequest[1].oResult
           p == processNextChunk(nOffset)
           again == <<[offset |-> oResult.offset, chunkSize |-> nChunksize,
                       last |-> (oResult.entire_hash # <<>>)]>>
       IN  IF bSuccess
           THEN /\ oRequest' = <<>>
                /\ workerInbox' = workerInbox \o p.messages
                /\ aPosted' = aPosted \o p.messages
                /\ nOffset' = p.nOffset
                /\ finished' = (finished \/ ~p.posted)
                /\ net' = Tail(net)
                /\ UNCHANGED <<nRetriesLeft, sent>>
           ELSE IF nRetriesLeft # 0
           THEN /\ nRetriesLeft' = nRetriesLeft - 1
                /\ oRequest' = <<>>
                /\ net' = Tail(net)
                /\ workerInbox' = workerInbox \o again
                /\ aPosted' = aPosted \o again
                /\ UNCHANGED <<nOffset, finished, sent>>
           ELSE /\ oRequest' = <<>>
                /\ net' = Tail(net)
                /\ UNCHANGED <<nRetriesLeft, nOffset, finished, workerInbox, aPosted, sent>>
    /\ aOutcomes' = Append(aOutcomes, Head(net).status = 200)
    /\ UNCHANGED <<fileVars, started, oSha1Whole, mainInbox, dir, aArrived, aHandlers,
                   hashVars>>

\* The callback fpFinish( bSuccess ) of uploadChunk, called by
\* onreadystatechange at readyState 4.
Finish ==
    /\ net # <<>>
    /\ Head(net).stage = "response"
    /\ LET bSuccess == (Head(net).status = 200)
           oResult == oRequest[1].oResult
           p == processNextChunk(nOffset)
       IN  IF bSuccess
           THEN /\ oRequest' = <<>>
                /\ workerInbox' = workerInbox \o p.messages
                /\ aPosted' = aPosted \o p.messages
                /\ nOffset' = p.nOffset
                /\ finished' = (finished \/ ~p.posted)
                /\ net' = Tail(net)
                /\ UNCHANGED <<nRetriesLeft, sent>>
           ELSE IF nRetriesLeft # 0
           THEN /\ nRetriesLeft' = nRetriesLeft - 1
                /\ oRequest' = <<SecureUploaderRequest(oResult)>>
                /\ net' = Append(Tail(net), Exchange(SecureUploaderRequest(oResult)))
                /\ sent' = Append(sent, getData(SecureUploaderRequest(oResult)))
                /\ UNCHANGED <<nOffset, finished, workerInbox, aPosted>>
           ELSE /\ oRequest' = <<>>
                /\ net' = Tail(net)
                /\ UNCHANGED <<nRetriesLeft, nOffset, finished, workerInbox, aPosted, sent>>
    /\ aOutcomes' = Append(aOutcomes, Head(net).status = 200)
    /\ UNCHANGED <<fileVars, started, oSha1Whole, mainInbox, dir, aArrived, aHandlers,
                   hashVars>>

(***************************************************************************)
(* The transport.                                                          *)
(***************************************************************************)
\* The submission reaches the receiver, which handles it; the response
\* reaches the client or is lost (status 0).
\* The receiver has handled data with the result r.
Handled(data, r) ==
    /\ dir' = r.dir
    /\ \E bLost \in BOOLEAN :
          net' = <<[data |-> data, stage |-> "response",
                    status |-> IF bLost THEN 0 ELSE r.status,
                    error |-> r.error]>> \o Tail(net)

\* The receiver gets data.
Receive(data) == Handled(data, UploadHandler(dir, data))

Deliver(bCorrupt) ==
    /\ net # <<>>
    /\ Head(net).stage = "request"
    /\ Receive(IF bCorrupt THEN [Head(net).data EXCEPT !.chunk = Corrupt(@)]
               ELSE Head(net).data)
    /\ UNCHANGED <<fileVars, clientVars, workerVars, sent, aOutcomes, aArrived, aHandlers,
                   hashVars>>

\* The submission never reaches the receiver.
RequestLost ==
    /\ net # <<>>
    /\ Head(net).stage = "request"
    /\ net' = <<[Head(net) EXCEPT !.stage = "response", !.status = 0]>> \o Tail(net)
    /\ UNCHANGED <<fileVars, clientVars, workerVars, dir, sent, aOutcomes, aArrived,
                   aHandlers, hashVars>>


(***************************************************************************)
(* The upload session and its receiver.                                    *)
(***************************************************************************)
HashIdle ==
    /\ sMessage = <<>>
    /\ nFed = 0
    /\ aPieces = <<>>
    /\ oSha1 = NewSha1
    /\ sDigest = <<>>
    /\ sRaw = <<>>
    /\ aLate = <<>>

\* new SecureUploaderFile( oFile, oSettings ), a new worker, an empty chunks/<guid>
UploadNew ==
    /\ started = FALSE
    /\ nOffset = 0
    /\ nRetriesLeft = RetryAllowance
    /\ oRequest = <<>>
    /\ finished = FALSE
    /\ aPosted = <<>>
    /\ workerInbox = <<>>
    /\ oSha1Whole = NewSha1
    /\ mainInbox = <<>>
    /\ net = <<>>
    /\ dir = <<>>
    /\ sent = <<>>
    /\ aOutcomes = <<>>
    /\ aArrived = <<>>
    /\ aHandlers = <<>>

Init ==
    /\ nFileSize \in 0..MaxFileSize
    /\ nChunksize \in 1..MaxChunkSize
    /\ bWebkitSlice \in BOOLEAN
    /\ UploadNew
    /\ HashIdle

Next ==
    \/ Start
    \/ WorkerOnMessage
    \/ UploadChunk
    \/ \E loaded \in 0..ProgressTotal : OnProgress(loaded)
    \/ \E bCorrupt \in BOOLEAN : Deliver(bCorrupt)
    \/ RequestLost
    \/ Finish

Spec == Init /\ [][Next]_vars

(***************************************************************************)
(* The upload session when every hashing task and every transfer           *)
(* concludes: the worker handles each message it was posted, its result    *)
(* reaches onmessage, every request on the wire gets to readyState 4 (with *)
(* the answer of the receiver or with status 0), and the callback runs.    *)
(***************************************************************************)
\* The worker is done with the message at the head of its queue: the step of
\* WorkerOnMessage, told by what it does to the queue (no other step of the
\* session takes a message off it).
WorkerConcludes == workerInbox # <<>> /\ workerInbox' = Tail(workerInbox)

\* Deliver and RequestLost are enabled in the same states, those with a
\* request on the wire, and a step of either one brings the request to
\* readyState 4 and so disables both: weak fairness of RequestLost says that
\* no request stays on the wire for ever, however it concludes.
LiveSpec ==
    /\ Spec
    /\ WF_workerInbox(WorkerConcludes)
    /\ WF_vars(UploadChunk)
    /\ WF_vars(RequestLost)
    /\ WF_vars(Finish)

(***************************************************************************)
(* The receiver alone: the submissions of one session, each delivered      *)
(* once and intact, reach it in any order.                                 *)
(***************************************************************************)
\* The responses the worker posts for the chunks from offset off on, the
\* whole-file hasher being whole: processNextChunk and the message listener
\* in turn.
RECURSIVE PlanResponses(_, _)
PlanStep(p, r) == <<r.oResponse>> \o PlanResponses(p.nOffset, r.oSha1Whole)

PlanFrom(p, whole) ==
    IF p.posted THEN PlanStep(p, WorkerResponse(p.messages[1], whole)) ELSE <<>>

PlanResponses(off, whole) == PlanFrom(processNextChunk(off), whole)

\* What the client puts on the wire for each response.
Submissions(aResponses) ==
    [i \in 1..Len(aResponses) |-> getData(SecureUploaderRequest(aResponses[i]))]

ReceiverInit ==
    /\ nFileSize \in 1..MaxFileSize
    /\ nChunksize \in 1..MaxChunkSize
    /\ bWebkitSlice = TRUE
    /\ started = TRUE
    /\ nOffset = 0
    /\ nRetriesLeft = RetryAllowance
    /\ oRequest = <<>>
    /\ finished = FALSE
    /\ aPosted = <<>>
    /\ workerInbox = <<>>
    /\ oSha1Whole = NewSha1
    /\ mainInbox = <<>>
    /\ net = <<>>
    /\ dir = <<>>
    /\ sent = Submissions(PlanResponses(0, NewSha1))
    /\ aOutcomes = <<>>
    /\ aArrived = <<>>
    /\ aHandlers = <<>>
    /\ HashIdle

\* The receiver gets the submission i, which it has not got yet.
Arrive(i) ==
    /\ \A k \in 1..Len(aArrived) : aArrived[k] # i
    /\ dir' = UploadHandler(dir, sent[i]).dir
    /\ aArrived' = Append(aArrived, i)
    /\ UNCHANGED <<fileVars, clientVars, workerVars, net, sent, aOutcomes, aHandlers,
                   hashVars>>

ReceiverNext == \E i \in 1..Len(sent) : Arrive(i)

ReceiverSpec == ReceiverInit /\ [][ReceiverNext]_vars

(***************************************************************************)
(* The receiver alone under any requests of a session: any submission, any *)
(* number of times, its chunk intact or corrupted, its hashes in lowercase *)
(* or uppercase hexadecimal.                                               *)
(***************************************************************************)
\* The hexadecimal string s in uppercase.
UpperHex(s) ==
    [i \in 1..Len(s) |->
        CASE s[i] = "a" -> "A" [] s[i] = "b" -> "B" [] s[i] = "c" -> "C"
          [] s[i] = "d" -> "D" [] s[i] = "e" -> "E" [] s[i] = "f" -> "F"
          [] OTHER -> s[i]]

\* The fields of the request as they reach the receiver.
Posted(data, bCorrupt, bUpper) ==
    [data EXCEPT
        !.chunk = IF bCorrupt THEN Corrupt(@) ELSE @,
        !.hash = IF bUpper THEN UpperHex(@) ELSE @,
        !.entire_hash = IF bUpper /\ @ # <<>> THEN <<UpperHex(@[1])>> ELSE @]

\* The receiver has handled data with the result r; the exchange is kept.
Answered(data, r) ==
    /\ dir' = r.dir
    /\ net' = <<[data |-> data, stage |-> "response", status |-> r.status,
                 error |-> r.error]>>

Answer(data) == Answered(data, UploadHandler(dir, data))

\* The receiver handles a request for the submission i.
Request(i, bCorrupt, bUpper) ==
    /\ Len(aArrived) < MaxRequests
    /\ Answer(Posted(sent[i], bCorrupt, bUpper))
    /\ aArrived' = Append(aArrived, i)
    /\ UNCHANGED <<fileVars, clientVars, workerVars, sent, aOutcomes, aHandlers,
                   hashVars>>

HandlerNext ==
    \E i \in 1..Len(sent) : \E bCorrupt, bUpper \in BOOLEAN : Request(i, bCorrupt, bUpper)

HandlerSpec == ReceiverInit /\ [][HandlerNext]_vars

(***************************************************************************)
(* The names under which the receiver stores the chunks of a session, for  *)
(* offsets of up to sixteen digits.                                        *)
(***************************************************************************)
\* n times the digit 9; the digit 1 and n times the digit 0
Nines(n) == [i \in 1..n |-> 57]

OneAndZeros(n) == <<49>> \o [i \in 1..n |-> 48]

\* The offsets posted: small ones, and those around 10^14 and 10^15.
OffsetSamples ==
    {Decimal(0), Decimal(1), Decimal(9), Decimal(10), Decimal(11), Decimal(100),
     Nines(14), OneAndZeros(14), Nines(15), OneAndZeros(15)}

KeyInit ==
    /\ nFileSize = 0
    /\ nChunksize = 1
    /\ bWebkitSlice = TRUE
    /\ UploadNew
    /\ HashIdle

\* The receiver stores a chunk posted with the offset sOffset.
StoreChunk(sOffset) ==
    /\ Len(aArrived) < MaxRequests
    /\ dir' = PutFile(dir, TargetNameOf(sOffset), <<>>)
    /\ aArrived' = Append(aArrived, sOffset)
    /\ UNCHANGED <<fileVars, clientVars, workerVars, net, sent, aOutcomes, aHandlers,
                   hashVars>>

KeyNext == \E sOffset \in OffsetSamples : StoreChunk(sOffset)

KeySpec == KeyInit /\ [][KeyNext]_vars

(***************************************************************************)
(* The receiver under two requests of one session at the same time: each   *)
(* run of the upload handler goes through its file operations one by one,  *)
(* and nothing in the script keeps the other run out.                      *)
(***************************************************************************)
\* The directory after the submissions in aData were handled one after the other.
RECURSIVE HandledInTurn(_, _)
HandledInTurn(d, aData) ==
    IF aData = <<>> THEN d
    ELSE HandledInTurn(UploadHandler(d, Head(aData)).dir, Tail(aData))

\* A run of the upload handler for the submission i that has not begun.
\* orphan: the handle of the result file is that of a file since replaced.
NewHandler(i) ==
    [i |-> i, pc |-> "move", chunk_list |-> <<>>, orphan |-> FALSE, status |-> 0]

ConcurrentInit ==
    /\ nFileSize \in 1..MaxFileSize
    /\ nChunksize \in 1..MaxChunkSize
    /\ bWebkitSlice = TRUE
    /\ started = TRUE
    /\ nOffset = 0
    /\ nRetriesLeft = RetryAllowance
    /\ oRequest = <<>>
    /\ finished = FALSE
    /\ aPosted = <<>>
    /\ workerInbox = <<>>
    /\ oSha1Whole = NewSha1
    /\ mainInbox = <<>>
    /\ net = <<>>
    /\ sent = Submissions(PlanResponses(0, NewSha1))
    /\ aOutcomes = <<>>
    /\ aArrived = <<>>
    /\ \E i, j \in 1..Len(sent) :
          /\ i <= j
          /\ aHandlers = <<NewHandler(i), NewHandler(j)>>
          /\ dir = HandledInTurn(<<>>, SubSeq(sent, 1, i - 1))
    /\ HashIdle

\* The run h goes on at pc, or ends with the status.
Goto(h, pc) == aHandlers' = [aHandlers EXCEPT ![h].pc = pc]

Die(h, status) == aHandlers' = [aHandlers EXCEPT ![h].pc = "done", ![h].status = status]

\* move_uploaded_file( $_FILES['chunk']['tmp_name'], $target_path )
HandlerMove(h) ==
    /\ aHandlers[h].pc = "move"
    /\ dir' = PutFile(dir, TargetName(sent[aHandlers[h].i].offset), sent[aHandlers[h].i].chunk)
    /\ Goto(h, "hash")

\* The outcome of the comparison of the chunk hash, and of isset( entire_hash ).
ChunkChecked(h, data, target_name) ==
    IF target_name \notin DOMAIN dir THEN Die(h, 500)
    ELSE IF strtolower(sha1_hash_file(dir, target_name)) # strtolower(data.hash)
    THEN Die(h, 500)
    ELSE IF data.entire_hash = <<>> THEN Die(h, 200)
    ELSE Goto(h, "list")

\* sha1_hash_file( $target_path ) and the comparison with $_POST['hash']
HandlerHash(h) ==
    /\ aHandlers[h].pc = "hash"
    /\ ChunkChecked(h, sent[aHandlers[h].i], TargetName(sent[aHandlers[h].i].offset))
    /\ UNCHANGED dir

\* combine_chunks: the DirectoryIterator loop and sort
HandlerList(h) ==
    /\ aHandlers[h].pc = "list"
    /\ aHandlers' = [aHandlers EXCEPT
            ![h].chunk_list = sort((DOMAIN dir) \ {FileName}),
            ![h].pc = IF Cardinality((DOMAIN dir) \ {FileName}) = 1
                      THEN "rename" ELSE "open"]
    /\ UNCHANGED dir

\* combine_chunks: rename( $chunk_path, $file_path ); the runs that hold the
\* replaced result file open append to a file that has no name any more.
HandlerRename(h) ==
    /\ aHandlers[h].pc = "rename"
    /\ IF aHandlers[h].chunk_list[1] \in DOMAIN dir
       THEN /\ dir' = PutFile(RemoveFiles(dir, {aHandlers[h].chunk_list[1]}), FileName,
                              dir[aHandlers[h].chunk_list[1]])
            /\ aHandlers' = [g \in 1..Len(aHandlers) |->
                    IF g = h THEN [aHandlers[g] EXCEPT !.pc = "whole"]
                    ELSE IF aHandlers[g].pc = "copy"
                    THEN [aHandlers[g] EXCEPT !.orphan = TRUE]
                    ELSE aHandlers[g]]
       ELSE Goto(h, "whole") /\ UNCHANGED dir

\* combine_chunks: fopen( $file_path, 'ab' )
HandlerOpen(h) ==
    /\ aHandlers[h].pc = "open"
    /\ dir' = IF FileName \in DOMAIN dir THEN dir ELSE PutFile(dir, FileName, <<>>)
    /\ aHandlers' = [aHandlers EXCEPT ![h].pc = "copy", ![h].orphan = FALSE]

\* combine_chunks: one round of the foreach over $chunk_list, or fclose after
\* the last
HandlerCopy(h) ==
    /\ aHandlers[h].pc = "copy"
    /\ IF aHandlers[h].chunk_list = <<>>
       THEN Goto(h, "whole") /\ UNCHANGED dir
       ELSE IF Head(aHandlers[h].chunk_list) \notin DOMAIN dir
       THEN Die(h, 500) /\ UNCHANGED dir
       ELSE /\ dir' = IF aHandlers[h].orphan THEN dir
                      ELSE PutFile(dir, FileName,
                                   dir[FileName] \o dir[Head(aHandlers[h].chunk_list)])
            /\ aHandlers' = [aHandlers EXCEPT ![h].chunk_list = Tail(@)]

\* The outcome of the comparison of the whole-file hash.
WholeChecked(h, data) ==
    IF FileName \notin DOMAIN dir THEN Die(h, 500)
    ELSE IF strtolower(sha1_hash_file(dir, FileName)) # strtolower(data.entire_hash[1])
    THEN Die(h, 500)
    ELSE Goto(h, "clear")

\* sha1_hash_file( $final_path ) and the comparison with $_POST['entire_hash']
HandlerWhole(h) ==
    /\ aHandlers[h].pc = "whole"
    /\ WholeChecked(h, sent[aHandlers[h].i])
    /\ UNCHANGED dir

\* clear_directory( $final_name, $target_dir ); die()
HandlerClear(h) ==
    /\ aHandlers[h].pc = "clear"
    /\ dir' = clear_directory(FileName, dir)
    /\ Die(h, 200)

HandlerStep(h) ==
    /\ \/ HandlerMove(h)
       \/ HandlerHash(h)
       \/ HandlerList(h)
       \/ HandlerRename(h)
       \/ HandlerOpen(h)
       \/ HandlerCopy(h)
       \/ HandlerWhole(h)
       \/ HandlerClear(h)
    /\ UNCHANGED <<fileVars, clientVars, workerVars, net, sent, aOutcomes, aArrived,
                   hashVars>>

ConcurrentNext == \E h \in 1..Len(aHandlers) : HandlerStep(h)

ConcurrentSpec == ConcurrentInit /\ [][ConcurrentNext]_vars

(***************************************************************************)
(* A Sha1 object fed a byte sequence piece by piece, then finalized.       *)
(***************************************************************************)
\* The byte sequence of length n that is fed.
Message(n) == [i \in 1..n |-> ((i * 37) + 200) % 256]

\* 'abcdef' of testBasic and the 1500 times 'A' of testLongInput
Abcdef == <<97, 98, 99, 100, 101, 102>>

LongInputLength == 1500

LongInput == [i \in 1..LongInputLength |-> 65]

\* The lengths fed: those around the block and padding boundaries.
MsgLens == {l \in 0..MaxMsgLen : (l % 64) \in {0, 1, 55, 56, 63} \/ l = MaxMsgLen}

\* The lengths of the pieces.
PieceLens == {0, 1, 63, 64, 65}

HashInit ==
    /\ sMessage \in {Message(l) : l \in MsgLens} \cup {Abcdef, LongInput}
    /\ nFed = 0
    /\ aPieces = <<>>
    /\ oSha1 = NewSha1
    /\ sDigest = <<>>
    /\ sRaw = <<>>
    /\ aLate = <<>>
    /\ nFileSize = 0
    /\ nChunksize = 1
    /\ bWebkitSlice = TRUE
    /\ UploadNew

\* oSha1.feed( the next n bytes ); the long input is fed in one call
FeedPiece(n) ==
    /\ ~oSha1.finalized
    /\ \/ Len(aPieces) < MaxFeeds
       \/ Len(aPieces) = MaxFeeds /\ n = Len(sMessage) - nFed
    /\ Len(sMessage) <= MaxMsgLen \/ n = Len(sMessage)
    /\ nFed + n <= Len(sMessage)
    /\ oSha1' = Sha1_feed(oSha1, SubSeq(sMessage, nFed + 1, nFed + n)).oSha1
    /\ nFed' = nFed + n
    /\ aPieces' = Append(aPieces, n)
    /\ UNCHANGED <<sMessage, sDigest, sRaw, aLate, uploadVars>>

\* oSha1.finalize( bRaw ) once everything was fed, and again after that
Finalize(bRaw) ==
    /\ nFed = Len(sMessage)
    /\ Len(sDigest) + Len(sRaw) < MaxFinalizes
    /\ oSha1' = finalize(oSha1)
    /\ IF bRaw
       THEN sRaw' = Append(sRaw, formatHashBinary(oSha1')) /\ UNCHANGED sDigest
       ELSE sDigest' = Append(sDigest, formatHashHex(oSha1')) /\ UNCHANGED sRaw
    /\ UNCHANGED <<sMessage, nFed, aPieces, aLate, uploadVars>>

\* What a call of feed after finalize leaves behind.
Late(n, r) ==
    /\ oSha1' = r.oSha1
    /\ aLate' = Append(aLate, [n |-> n, thrown |-> r.thrown])

\* oSha1.feed( n bytes ) after finalize
FeedLate(n) ==
    /\ oSha1.finalized
    /\ Len(aLate) < MaxLateFeeds
    /\ Late(n, Sha1_feed(oSha1, Message(n)))
    /\ UNCHANGED <<sMessage, nFed, aPieces, sDigest, sRaw, uploadVars>>

HashNext ==
    \/ \E n \in PieceLens \cup {Len(sMessage) - nFed} : FeedPiece(n)
    \/ \E bRaw \in BOOLEAN : Finalize(bRaw)
    \/ \E n \in {0, 1} : FeedLate(n)

HashSpec == HashInit /\ [][HashNext]_vars


(***************************************************************************)
(* Properties of the Sha1 object.                                          *)
(***************************************************************************)
\* What a new Sha1 fed s in one call returns from finalize.
OneShot(s) == formatHashHex(finalize(feed(NewSha1, s)))

\* C1: for any byte sequence and any split of it into consecutive feed calls
\* (empty pieces included) on a new Sha1, finalize returns the digest that a
\* new Sha1 fed the whole sequence in one call returns.
\* (Looked at when finalize returns for the first time; what it returned is
\* kept as it is by every later call.)
C1_IncrementalEqualsOneShot ==
    (Len(sDigest) = 1 /\ sRaw = <<>> /\ aLate = <<>>) => sDigest[1] = OneShot(sMessage)

\* A sequence longer than one block was fed in at least three pieces, one of
\* them empty and one ending inside a block, and was finalized.
C1_Witness ==
    /\ sDigest # <<>>
    /\ Len(sMessage) > BlockBytes
    /\ Len(aPieces) >= 3
    /\ \E i \in 1..Len(aPieces) : aPieces[i] = 0
    /\ \E i \in 1..Len(aPieces) : aPieces[i] % BlockBytes # 0


(***************************************************************************)
(* Properties of the upload session.                                       *)
(***************************************************************************)
\* The bytes of the file that is uploaded.
Source == FileBytes(nFileSize)

\* No transfer of the session has failed: every failure the client sees
\* takes one retry, or finds none left.
NoFailure == nRetriesLeft = RetryAllowance

\* The receiver answered the submission of the final chunk with success.
FinalAccepted ==
    \/ finished
    \/ /\ net # <<>>
       /\ Head(net).stage = "response"
       /\ Head(net).status = 200
       /\ Head(net).data.entire_hash # <<>>

\* The session container holds the artifact, equal to the source, and nothing else.
Committed == DOMAIN dir = {FileName} /\ dir[FileName] = Source

\* C2: for a source of size >= 1 and a chunk size >= 1, when every submission
\* was delivered uncorrupted and acknowledged, then once the final chunk has
\* been accepted the artifact is byte-identical to the source and no chunk
\* fragment remains in the session container.
C2_FailureFreeArtifact ==
    (nFileSize >= 1 /\ NoFailure /\ FinalAccepted) => Committed

\* A failure-free session of at least three chunks has finished.
C2_Witness ==
    /\ finished
    /\ NoFailure
    /\ Len(sent) >= 3
    /\ Committed

\* C3: once the receiver has verified the whole-stream digest and committed
\* the artifact, the artifact stays byte-identical to the source under every
\* later submission of the session, also a re-submission of the final chunk
\* whose success response was lost.
C3_CommittedArtifactStays ==
    [][Committed => (FileName \in DOMAIN dir' /\ dir'[FileName] = Source)]_vars

\* C4: when the digest the receiver recomputes over an incoming chunk differs
\* from the claimed chunk hash, the submission is rejected and the chunk
\* store holds no entry with the received bytes after the rejection.
C4_RejectedChunkNotPersisted ==
    \A i \in 1..Len(net) :
        (net[i].stage = "response" /\ net[i].error = "Hash mismatch for chunk.")
            => \A name \in DOMAIN dir : dir[name] # net[i].data.chunk

\* The size of the chunk at offset o of a plan that covers the file.
PlannedSize(o) ==
    IF o + nChunksize <= nFileSize THEN nChunksize
    ELSE IF nFileSize % nChunksize = 0 THEN nChunksize
    ELSE nFileSize % nChunksize

\* C5: for totalSize >= 1 and chunkSize >= 1, the chunks a failure-free
\* session hashes and submits have the offsets 0, chunkSize, 2*chunkSize, ...
\* in ascending order; each has the size chunkSize but the last, of size
\* totalSize mod chunkSize (chunkSize when that is 0); the ranges cover
\* [0, totalSize) without gap or overlap and no chunk has length zero.
C5_ChunkPlan ==
    (nFileSize >= 1 /\ NoFailure) =>
        /\ \A i \in 1..Len(aPosted) :
              /\ aPosted[i].offset = (i - 1) * nChunksize
              /\ aPosted[i].offset < nFileSize
        /\ \A i \in 1..Len(sent) :
              /\ sent[i].offset = aPosted[i].offset
              /\ sent[i].size = PlannedSize(sent[i].offset)
              /\ sent[i].size >= 1
              /\ i > 1 => sent[i].offset = sent[i - 1].offset + sent[i - 1].size
        /\ finished =>
              /\ sent # <<>>
              /\ sent[Len(sent)].offset + sent[Len(sent)].size = nFileSize
              /\ \A i \in 1..Len(sent) :
                    sent[i].chunk = SubSeq(Source, sent[i].offset + 1,
                                           sent[i].offset + sent[i].size)

\* A failure-free session has submitted all its chunks, the last one shorter
\* than the chunk size.
C5_Witness ==
    /\ finished
    /\ NoFailure
    /\ Len(sent) >= 2
    /\ sent[Len(sent)].size < nChunksize

\* processNextChunk would return false: every chunk of the plan was posted.
PlanningDone == started /\ nOffset >= nFileSize

\* The positions in the plan of the chunks marked final.
FinalMarks == {i \in 1..Len(aPosted) : aPosted[i].last}

\* C6 as stated: for any totalSize, 0 included, and any chunkSize > 0,
\* exactly one planned chunk is marked final, and it is the last of the plan.
C6_OneFinalAnySize ==
    PlanningDone => (aPosted # <<>> /\ FinalMarks = {Len(aPosted)})

\* C6: for any totalSize >= 1 and any chunkSize > 0, exactly one planned chunk
\* is marked final, and it is the last of the plan; before the plan is
\* complete no chunk is marked final.
C6_OneFinalNonEmpty ==
    nFileSize >= 1 =>
        /\ PlanningDone => (aPosted # <<>> /\ FinalMarks = {Len(aPosted)})
        /\ ~PlanningDone => FinalMarks = {}

\* The plan of a file of several chunks is complete.
C6_Witness ==
    /\ PlanningDone
    /\ Len(aPosted) >= 2
    /\ aPosted[Len(aPosted)].last

\* At most one chunk is with the worker, on its way back from it, or on the wire.
OneChunkInFlight == Len(workerInbox) + Len(mainInbox) + Len(net) <= 1

\* A hashing request is posted alone, and after the first one only when the
\* transfer of the chunk posted before it has got its response and nothing
\* else is in flight.
PostedAfterTransfer ==
    Len(aPosted') > Len(aPosted) =>
        /\ Len(aPosted') = Len(aPosted) + 1
        /\ mainInbox' = <<>> /\ net' = <<>> /\ oRequest' = <<>>
        /\ aPosted # <<>> =>
              /\ net # <<>>
              /\ Head(net).stage = "response"
              /\ Head(net).data.offset = aPosted[Len(aPosted)].offset

\* C7: the session is strictly serial: in every reachable state at most one
\* chunk is being hashed by the worker or transferred to the receiver, and
\* the hashing request for the next chunk is posted only after the transfer
\* of the previous chunk has concluded.
C7_StrictlySerial == []OneChunkInFlight /\ [][PostedAfterTransfer]_vars

\* The second chunk is with the worker after the transfer of the first.
C7_Witness ==
    /\ Len(aPosted) = 2
    /\ Len(workerInbox) = 1
    /\ net = <<>>
    /\ sent # <<>>

\* How many times the chunk at offset o was put on the wire.
Transfers(o) == Cardinality({i \in 1..Len(sent) : sent[i].offset = o})

\* C8 as stated: a chunk is transferred at most 3 times.
C8_AtMostThreeTransfers ==
    \A i \in 1..Len(sent) : Transfers(sent[i].offset) <= 3

\* C8: a chunk is transferred at most 4 times, the first attempt and three
\* retries: after the fourth failed transfer of the same chunk the session
\* makes no further attempt for it.
C8_AtMostFourTransfers ==
    \A i \in 1..Len(sent) : Transfers(sent[i].offset) <= 4

\* The session was abandoned: it was started, has submitted something, has
\* not finished, and nothing is with the worker or on the wire.
Aborted ==
    /\ started
    /\ ~finished
    /\ sent # <<>>
    /\ workerInbox = <<>> /\ mainInbox = <<>> /\ net = <<>>

\* A chunk was transferred four times and the session gave up.
C8_Witness ==
    /\ Aborted
    /\ \E i \in 1..Len(sent) : Transfers(sent[i].offset) = 4

\* C9: whenever the session advances to a new chunk, the retries remaining
\* are reset to the full allowance, whatever earlier chunks consumed.
C9_AllowanceResetOnAdvance ==
    [][Len(aPosted') > Len(aPosted) => nRetriesLeft' = RetryAllowance]_vars

\* C10: when a transfer fails and no retries remain, the session reports the
\* failure to the caller: what the caller reads from the uploader is not what
\* it read while the transfer was still in progress.
C10_AbortReported ==
    [][(~Aborted /\ Aborted') =>
          SecureUploader_getProgressPercentage' # SecureUploader_getProgressPercentage]_vars

\* The receiver's answer "Hash mismatch for file." has reached the client.
WholeMismatchReported ==
    /\ net # <<>>
    /\ Head(net).stage = "response"
    /\ Head(net).status = 500
    /\ Head(net).error = "Hash mismatch for file."

\* C11: a whole-stream hash mismatch that the receiver reports on the final
\* chunk is fatal and not retried: after it the client does not submit the
\* final chunk again.
C11_WholeMismatchNotRetried ==
    [][WholeMismatchReported => sent' = sent]_vars

\* Every submission of the session has reached the receiver.
AllArrived == Len(aArrived) = Len(sent)

\* The submission of the final chunk was the last to arrive.
FinalArrivedLast == AllArrived /\ aArrived[Len(aArrived)] = Len(sent)

\* C12 as stated: for every order in which the uncorrupted chunks of a
\* session arrive, also with the final chunk not the last to arrive, the
\* artifact the receiver produces is byte-identical to the source.
C12_AnyArrivalOrder == AllArrived => Committed

\* C12: for every order of arrival in which the chunk marked final arrives
\* last, the artifact the receiver produces is byte-identical to the source.
C12_FinalLastAnyOrder == FinalArrivedLast => Committed

\* At least three chunks have arrived, the final one last, the others not in
\* the order of their offsets.
C12_Witness ==
    /\ FinalArrivedLast
    /\ Len(aArrived) >= 3
    /\ aArrived[1] > aArrived[2]
    /\ Committed

\* C13: after finalize, every later call of feed fails with an error, for
\* every input, the empty input included.
C13_FeedAfterFinalizeThrows ==
    \A i \in 1..Len(aLate) : aLate[i].thrown # ""

\* A finalized object was fed the empty input and a non-empty one.
C13_Witness ==
    /\ oSha1.finalized
    /\ \E i \in 1..Len(aLate) : aLate[i].n = 0
    /\ \E i \in 1..Len(aLate) : aLate[i].n > 0

\* The digests that testBasic and testLongInput expect.
AbcdefDigest ==
    <<"1", "f", "8", "a", "c", "1", "0", "f", "2", "3", "c", "5", "b", "5",
      "b", "c", "1", "1", "6", "7", "b", "d", "a", "8", "4", "b", "8", "3",
      "3", "e", "5", "c", "0", "5", "7", "a", "7", "7", "d", "2">>

LongInputDigest ==
    <<"a", "7", "f", "6", "4", "4", "d", "4", "a", "5", "b", "8", "6", "3",
      "0", "3", "7", "d", "a", "8", "c", "a", "d", "d", "2", "e", "6", "9",
      "6", "4", "0", "e", "f", "3", "d", "c", "8", "0", "4", "e">>

\* C14: from a new Sha1, feeding "abcdef" and finalizing gives
\* 1f8ac10f23c5b5bc1167bda84b833e5c057a77d2, and feeding 1500 times "A" gives
\* a7f644d4a5b863037da8cadd2e69640ef3dc804e; each is what the SHA-1 of
\* RFC 3174 gives for the input.
C14_KnownAnswers ==
    sDigest # <<>> =>
        /\ sMessage = Abcdef =>
              sDigest[1] = AbcdefDigest /\ Rfc3174Sha1(Abcdef) = AbcdefDigest
        /\ sMessage = LongInput =>
              sDigest[1] = LongInputDigest /\ Rfc3174Sha1(LongInput) = LongInputDigest

\* The 1500 bytes were fed and finalized.
C14_Witness ==
    /\ sMessage = LongInput
    /\ sDigest = <<LongInputDigest>>


\* Two lowercase hexadecimal digits for each byte, in the order of the bytes.
BytesToHex(sBytes) ==
    [k \in 1..(2 * Len(sBytes)) |->
        LET nByte == sBytes[(k + 1) \div 2]
        IN  HexDigit[(IF k % 2 = 1 THEN nByte \div 16 ELSE nByte % 16) + 1]]

\* aExpected of testBinaryOutput: the digest of 'abcdef', the most
\* significant byte first.
AbcdefBytes ==
    <<31, 138, 193, 15, 35, 197, 181, 188, 17, 103, 189, 168, 75, 131, 62, 92,
      5, 122, 119, 210>>

\* C15: the 20 bytes that finalize( true ) returns, each written as two
\* lowercase hex digits, are the 40 characters that finalize( false ) returns
\* for the same input; both put the most significant byte first.
C15_RawAgreesWithHex ==
    /\ \A i \in 1..Len(sRaw) :
          /\ Len(sRaw[i]) = 20
          /\ \A j \in 1..Len(sDigest) : BytesToHex(sRaw[i]) = sDigest[j]
          /\ sMessage = Abcdef => sRaw[i] = AbcdefBytes
    /\ \A j \in 1..Len(sDigest) : Len(sDigest[j]) = 40

\* An input longer than a block was finalized with and without bRaw.
C15_Witness ==
    /\ sRaw # <<>>
    /\ sDigest # <<>>
    /\ Len(sMessage) > BlockBytes
    /\ BytesToHex(sRaw[1]) = sDigest[1]


\* The submission is that of the final chunk: the chunk reaches the end of
\* the source.
IsFinalSubmission(oData) == oData.offset + nChunksize >= nFileSize

\* C16: a submission carries the whole-stream size and hash fields
\* (entire_size, entire_hash) if and only if it is the submission of the final
\* chunk; the submissions of the other chunks, retries included, carry neither.
C16_EntireFieldsIffFinal ==
    \A i \in 1..Len(sent) :
        IF IsFinalSubmission(sent[i])
        THEN sent[i].entire_size = <<nFileSize>> /\ sent[i].entire_hash # <<>>
        ELSE sent[i].entire_size = <<>> /\ sent[i].entire_hash = <<>>

\* A chunk that is not the final one was submitted twice, and the final chunk
\* was submitted.
C16_Witness ==
    /\ \E i, j \in 1..Len(sent) :
          i < j /\ sent[i].offset = sent[j].offset /\ ~IsFinalSubmission(sent[i])
    /\ \E i \in 1..Len(sent) :
          IsFinalSubmission(sent[i]) /\ sent[i].entire_hash # <<>>


\* The fraction is a number from 0 to 1.
InUnitInterval(f) == f[2] > 0 /\ 0 <= f[1] /\ f[1] <= f[2]

\* C17: in every reachable state (before the start, while hashing, while
\* transferring at any fraction, after success, after an abort) and for every
\* totalSize and chunkSize, getProgressPercentage returns a fraction from 0 to 1.
C17_ProgressInUnitInterval == InUnitInterval(SecureUploader_getProgressPercentage)

\* The transfer of the final chunk has succeeded.
FinalSucceeded ==
    \E i \in 1..Len(aOutcomes) : aOutcomes[i] /\ sent[i].entire_hash # <<>>

\* C18: once the transfer of the final chunk has succeeded, every later call
\* of getProgressPercentage returns exactly 1.
C18_ProgressOneAfterSuccess ==
    FinalSucceeded => SecureUploader_getProgressPercentage = <<1, 1>>

\* A file of several chunks was uploaded, the transfer of its final chunk
\* succeeding after a failed one.
C18_Witness ==
    /\ FinalSucceeded
    /\ Len(sent) >= 3
    /\ \E i \in 1..Len(aOutcomes) : ~aOutcomes[i] /\ sent[i].entire_hash # <<>>
    /\ SecureUploader_getProgressPercentage = <<1, 1>>


\* The digests that the calls of finalize have returned, in hexadecimal.
Returned ==
    {sDigest[i] : i \in 1..Len(sDigest)} \cup {BytesToHex(sRaw[i]) : i \in 1..Len(sRaw)}

\* C19: finalize is an idempotent read: a second call of finalize on the same
\* object returns the digest that the first returned and compresses no
\* further block.
C19_FinalizeIdempotent ==
    [][(oSha1.finalized /\ Len(sDigest') + Len(sRaw') > Len(sDigest) + Len(sRaw))
         => (Returned' = Returned /\ oSha1' = oSha1)]_vars

\* An object fed up to the middle of a block was finalized twice.
C19_Witness ==
    /\ Len(sDigest) = 2
    /\ Len(sMessage) % BlockBytes # 0
    /\ sDigest[1] = sDigest[2]


\* The sum of the lengths in aLengths.
RECURSIVE SumOfLengths(_)
SumOfLengths(aLengths) ==
    IF aLengths = <<>> THEN 0 ELSE Head(aLengths) + SumOfLengths(Tail(aLengths))

\* C20: on an object that was not finalized, a call of feed with the empty
\* input changes neither the accumulators, nor the pending block, nor the
\* length counter; a call with a non-empty input raises the counter by the
\* length of the input, so that the counter is the sum of the lengths fed.
C20_FeedCountsInput ==
    [][(~oSha1.finalized /\ aPieces' # aPieces) =>
          /\ nFed' = nFed => oSha1' = oSha1
          /\ oSha1'.nAccumulatedMessageLength
                = oSha1.nAccumulatedMessageLength + aPieces'[Len(aPieces')]
          /\ oSha1'.nAccumulatedMessageLength = SumOfLengths(aPieces')]_vars

\* More than a block was fed in three pieces, the second of them empty and
\* fed while a block was pending.
C20_Witness ==
    /\ Len(aPieces) = 3
    /\ aPieces[1] % BlockBytes # 0
    /\ aPieces[2] = 0
    /\ aPieces[3] > 0
    /\ oSha1.nAccumulatedMessageLength > BlockBytes
    /\ oSha1.aLastBlock # Null


\* C21: when the digest the receiver recomputes over the concatenated
\* artifact differs from the claimed whole-stream hash, the receiver reports
\* the failure and discards the output, so that no unverified artifact is
\* left under the final filename.
C21_MismatchedArtifactDiscarded ==
    WholeMismatchReported => FileName \notin DOMAIN dir


\* The two runs of the upload handler have ended.
HandlersDone == \A h \in 1..Len(aHandlers) : aHandlers[h].pc = "done"

\* The directory before the two runs began.
DirBefore == HandledInTurn(<<>>, SubSeq(sent, 1, aHandlers[1].i - 1))

\* The directory after the submission i, then the submission j, were handled
\* one after the other from the directory d.
InTurn(d, i, j) == HandledInTurn(d, <<sent[i], sent[j]>>)

\* C22: the receiver treats the chunk-store writes of one session as a
\* critical section: for any two submissions of the same session handled at
\* the same time, the resulting chunk store and artifact are those of one of
\* the two sequential executions of the two handlers.
C22_HandlersSerializable ==
    HandlersDone =>
        dir \in {InTurn(DirBefore, aHandlers[1].i, aHandlers[2].i),
                 InTurn(DirBefore, aHandlers[2].i, aHandlers[1].i)}


\* The hexadecimal string s in lowercase.
LowerHex(s) ==
    [i \in 1..Len(s) |->
        CASE s[i] = "A" -> "a" [] s[i] = "B" -> "b" [] s[i] = "C" -> "c"
          [] s[i] = "D" -> "d" [] s[i] = "E" -> "e" [] s[i] = "F" -> "f"
          [] OTHER -> s[i]]

\* The digest of the chunk bytes received is the claimed chunk hash, but for
\* the case of the letters.
ChunkHashMatches(data) == hash_sha1(data.chunk) = LowerHex(data.hash)

\* The directory d with the chunk of data stored, and nothing else done.
ChunkStored(d, data) == PutFile(d, TargetName(data.offset), data.chunk)

\* C23: absent storage failures, the receiver answers the submission of a
\* non-final chunk with success if and only if the digest it recomputes over
\* the chunk bytes received equals the claimed chunk hash, compared without
\* regard to case; and it starts reassembly only for a submission that carries
\* the whole-stream hash and whose own chunk hash has matched.
C23_ChunkHashGate ==
    [][net' # net =>
          /\ net'[1].data.entire_hash = <<>> =>
                (net'[1].status = 200 <=> ChunkHashMatches(net'[1].data))
          /\ dir' # ChunkStored(dir, net'[1].data) =>
                (net'[1].data.entire_hash # <<>> /\ ChunkHashMatches(net'[1].data))]_vars

\* The last request was for a chunk that is not the final one, with its hash
\* in uppercase letters, and was answered with success.
C23_Witness ==
    /\ net # <<>>
    /\ net[1].data.entire_hash = <<>>
    /\ net[1].data.hash # LowerHex(net[1].data.hash)
    /\ net[1].status = 200


\* The bytes fed that no compressed block holds: the pending buffer.
PendingBytes == nFed - (BlockBytes * Len(oSha1.aCompressed))

\* C24 as stated: after every feed call returns, the pending buffer holds
\* fewer than 64 bytes: every complete 64-byte unit of the stream fed so far
\* has been compressed.
C24_PendingBelowBlock ==
    ~oSha1.finalized => PendingBytes < BlockBytes

\* C24: after every feed call returns, the pending buffer holds at most 64
\* bytes: every complete 64-byte unit of the stream fed so far, other than a
\* unit that ends the stream fed so far, has been compressed.
C24_PendingAtMostBlock ==
    ~oSha1.finalized =>
        /\ PendingBytes <= BlockBytes
        /\ nFed > 0 => PendingBytes >= 1
        /\ oSha1.aCompressed = chunk(SubSeq(sMessage, 1, nFed - PendingBytes))

\* Two blocks were fed in several pieces; the second block is pending whole.
C24_Witness ==
    /\ ~oSha1.finalized
    /\ nFed = 2 * BlockBytes
    /\ Len(aPieces) >= 2
    /\ PendingBytes = BlockBytes
    /\ Len(oSha1.aCompressed) = 1


\* The blocks that the step compresses.
NewlyCompressed ==
    SubSeq(oSha1'.aCompressed, Len(oSha1.aCompressed) + 1, Len(oSha1'.aCompressed))

\* C25: for every total stream length L >= 0, also for a hasher that was
\* never fed or was fed only empty inputs, the first finalize compresses one
\* or two final padded blocks before it renders the digest; for L = 0 it
\* compresses the single padding block of byte 0x80, zeros and a zero length.
C25_FinalizeCompressesPadding ==
    [][(~oSha1.finalized /\ oSha1'.finalized) =>
          /\ Len(NewlyCompressed) \in {1, 2}
          /\ Len(sMessage) = 0 => NewlyCompressed = chunk(<<128>>)]_vars


\* C26: for every total length L >= 1 and every partition into feeds, the
\* blocks compressed by the feeds and by finalize, in order, are the 64-byte
\* blocks of the padded message of RFC 3174: the message bytes, byte 0x80
\* right after them, zeros, and the 64-bit big-endian value 8 * L in the last
\* two words; finalize itself compresses two blocks exactly when L mod 64 = 0
\* or L mod 64 >= 56, and one block otherwise.
C26_CompressedBlocksArePaddedMessage ==
    [][(~oSha1.finalized /\ oSha1'.finalized /\ Len(sMessage) >= 1) =>
          /\ oSha1'.aCompressed = chunk(Rfc3174Pad(sMessage))
          /\ Len(NewlyCompressed)
                = IF Len(sMessage) % BlockBytes = 0 \/ Len(sMessage) % BlockBytes >= 56
                  THEN 2 ELSE 1]_vars

\* A message of a block and 56 bytes was fed in several pieces and finalized:
\* three blocks were compressed, two of them by finalize.
C26_Witness ==
    /\ oSha1.finalized
    /\ Len(sMessage) = BlockBytes + 56
    /\ Len(aPieces) >= 2
    /\ Len(oSha1.aCompressed) = 3
    /\ oSha1.aCompressed = chunk(Rfc3174Pad(sMessage))


\* The whole-file hasher after the worker handled the messages in aMessages,
\* one after the other.
RECURSIVE HashedInTurn(_, _)
HashedInTurn(whole, aMessages) ==
    IF aMessages = <<>> THEN whole
    ELSE HashedInTurn(WholeAfter(Head(aMessages),
                                 feed(whole, sliceFile(FileBytes(nFileSize),
                                                       Head(aMessages).offset,
                                                       Head(aMessages).chunkSize))),
                      Tail(aMessages))

\* The messages for the first k chunks of the source, in the order of their
\* offsets.
ChunksInOrder(k) ==
    [c \in 1..k |-> [offset |-> (c - 1) * nChunksize, chunkSize |-> nChunksize,
                     last |-> (c * nChunksize >= nFileSize)]]

\* C27: in every session, whatever transfers fail and are retried, the
\* whole-stream hasher is fed the bytes of every chunk exactly once, in
\* ascending order of the offsets, and is finalized once, when the final chunk
\* is hashed; a retry sends the result computed before again (the same offset,
\* size, chunk hash and bytes) and does not read or hash the source again.
C27_WholeHasherFedOnce ==
    /\ aPosted = ChunksInOrder(Len(aPosted))
    /\ oSha1Whole = HashedInTurn(NewSha1, ChunksInOrder(Len(aPosted) - Len(workerInbox)))
    /\ oSha1Whole.finalized <=>
          (aPosted # <<>> /\ workerInbox = <<>> /\ aPosted[Len(aPosted)].last)
    /\ \A i, j \in 1..Len(sent) : sent[i].offset = sent[j].offset => sent[i] = sent[j]

\* A file of three chunks was uploaded to the end, with a retry of a chunk
\* that is not the final one and a retry of the final chunk.
C27_Witness ==
    /\ finished
    /\ Len(aPosted) = 3
    /\ oSha1Whole.finalized
    /\ \E i, j \in 1..Len(sent) :
          i < j /\ sent[i] = sent[j] /\ sent[i].entire_hash = <<>>
    /\ \E i, j \in 1..Len(sent) :
          i < j /\ sent[i] = sent[j] /\ sent[i].entire_hash # <<>>


\* a < b for two decimal numbers without leading zeros.
RECURSIVE DigitsLess(_, _)
DigitsLess(a, b) ==
    IF Len(a) # Len(b) THEN Len(a) < Len(b)
    ELSE IF a = <<>> THEN FALSE
    ELSE IF Head(a) # Head(b) THEN Head(a) < Head(b)
    ELSE DigitsLess(Tail(a), Tail(b))

\* The place of the name in the sorted list.
PlaceOf(aNames, sName) == CHOOSE i \in 1..Len(aNames) : aNames[i] = sName

\* The offsets posted so far that are below 10^15.
OffsetsBelowLimit ==
    {aArrived[i] : i \in {k \in 1..Len(aArrived) : Len(aArrived[k]) <= 15}}

\* C28: for any two chunk offsets a < b below 10^15 of the same session, the
\* persisted key of a (the offset zero-padded to 15 digits) sorts before the
\* key of b, so that sorting the keys gives the ascending order of the
\* offsets, and two different offsets never share a key.
C28_KeysSortAsOffsets ==
    \A a, b \in OffsetsBelowLimit :
        DigitsLess(a, b) =>
            /\ TargetNameOf(a) # TargetNameOf(b)
            /\ StrLess(TargetNameOf(a), TargetNameOf(b))
            /\ PlaceOf(sort(DOMAIN dir), TargetNameOf(a))
                  < PlaceOf(sort(DOMAIN dir), TargetNameOf(b))

\* Chunks were stored for the offsets 10, 9 and 10^15 - 1, in this order.
C28_Witness ==
    /\ aArrived = <<Decimal(10), Decimal(9), Nines(15)>>
    /\ Cardinality(DOMAIN dir) = 3
    /\ sort(DOMAIN dir) = <<TargetNameOf(Decimal(9)), TargetNameOf(Decimal(10)),
                            TargetNameOf(Nines(15))>>


\* The chunk fragments in the directory d.
Fragments(d) == (DOMAIN d) \ {FileName}

\* The run that handled data from the directory d1 (the chunk of data stored)
\* to d2 has deleted fragments: fragments are gone, and not because the only
\* one was renamed to the artifact by the reassembly.
FragmentsDeleted(d1, d2) ==
    Cardinality(Fragments(d1)) > 1 /\ Fragments(d1) \ DOMAIN d2 # {}

\* The digest of the artifact in d is the claimed whole-stream hash.
WholeHashMatches(d, data) ==
    /\ data.entire_hash # <<>>
    /\ FileName \in DOMAIN d
    /\ Rfc3174Sha1(d[FileName]) = LowerHex(data.entire_hash[1])

C30_ChunkIsSourceRange ==
    \A i \in 1..Len(sent) :
        /\ sent[i].size = Min(nChunksize, nFileSize - sent[i].offset)
        /\ Len(sent[i].chunk) = sent[i].size
        /\ sent[i].chunk = SubSeq(Source, sent[i].offset + 1, sent[i].offset + sent[i].size)


\* The number of chunks of the file.
ChunkCount == (nFileSize + (nChunksize - 1)) \div nChunksize

\* The offsets of the submissions that were acknowledged with success, in
\* the order of the acknowledgements.
AckedOffsets ==
    LET acked == SelectSeq([i \in 1..Len(aOutcomes) |-> i], LAMBDA i : aOutcomes[i])
    IN  [k \in 1..Len(acked) |-> sent[acked[k]].offset]

\* C31: under any pattern of transport failures, corruption in transit and
\* lost responses, whenever the session has reached terminal success (the
\* progress is forced to 1), every chunk was acknowledged with a success
\* status, in ascending order of the offsets, and the artifact of the
\* receiver is byte-identical to the source.
C31_SuccessMeansIntactArtifact ==
    finished =>
        /\ AckedOffsets = [k \in 1..ChunkCount |-> (k - 1) * nChunksize]
        /\ FileName \in DOMAIN dir
        /\ dir[FileName] = Source

\* A file of several chunks was uploaded with success although three
\* transfers failed on the way.
C31_Witness ==
    /\ finished
    /\ ChunkCount >= 2
    /\ nRetriesLeft = 0
    /\ Len(AckedOffsets) = ChunkCount
    /\ dir[FileName] = Source


\* Nothing is with the worker, on its way back from it, or on the wire.
Quiet == workerInbox = <<>> /\ mainInbox = <<>> /\ net = <<>> /\ oRequest = <<>>

\* Terminal success: the transfer of the final chunk was acknowledged.
Succeeded ==
    /\ finished
    /\ Quiet
    /\ aOutcomes # <<>>
    /\ aOutcomes[Len(aOutcomes)]
    /\ sent[Len(aOutcomes)].entire_hash # <<>>

\* Terminal stop: a transfer failed when no retries were left.
Stopped ==
    /\ Aborted
    /\ Quiet
    /\ nRetriesLeft = 0
    /\ aOutcomes # <<>>
    /\ ~aOutcomes[Len(aOutcomes)]

Terminal == Succeeded \/ Stopped

\* In a terminal state no further chunk is hashed or transferred.
TerminalStays == [][Terminal => (aPosted' = aPosted /\ sent' = sent)]_vars

\* C32: when every hashing task and every transfer concludes, every started
\* session reaches a terminal state, which is success after the final chunk
\* was acknowledged or a stop after a failed transfer with no retries left,
\* and in a terminal state no further chunk is hashed or transferred.
C32_SessionTerminates == (started ~> Terminal) /\ TerminalStays

\* The same for the sessions of a file that is not empty.
NonEmptySessionTerminates == ((started /\ nFileSize >= 1) ~> Terminal) /\ TerminalStays


\* How many of the first k concluded transfers failed.
Failures(k) == Cardinality({i \in 1..k : ~aOutcomes[i]})

\* C33: over a whole session with n chunks the client makes at most n + 3
\* transfer attempts in total: each of the first three failed transfers of
\* the session, whatever chunks they were for, is followed by another
\* attempt for the same chunk, and the fourth failed transfer is the last
\* attempt of the session.
C33_SessionRetryBudget ==
    /\ Len(sent) <= ChunkCount + 3
    /\ \A i \in 1..Len(aOutcomes) :
          ~aOutcomes[i] =>
              IF Failures(i) <= 3
              THEN Len(sent) > i /\ sent[i + 1] = sent[i]
              ELSE Failures(i) = 4 /\ Len(sent) = i /\ Stopped

\* A session of several chunks made n + 3 attempts, its failed transfers
\* spread over more than one chunk, and stopped at the fourth.
C33_Witness ==
    /\ Stopped
    /\ ChunkCount >= 2
    /\ Len(sent) = ChunkCount + 3
    /\ Failures(Len(aOutcomes)) = 4
    /\ \E i, j \in 1..Len(aOutcomes) :
          ~aOutcomes[i] /\ ~aOutcomes[j] /\ sent[i].offset # sent[j].offset


=============================================================================
